---- MODULE Spec2Model ----
(***************************************************************************)
(* logstox: the structured-field value model (package fields) and its      *)
(* translation into zap fields (package zapx).                             *)
(*                                                                         *)
(* A Go value is a record [t |-> dynamic type, v |-> value]; a Field is    *)
(* the record [Key, kind, Value] of fields.Field.  A zap.Field is a record *)
(* [Key, Type, Val].                                                       *)
(***************************************************************************)
EXTENDS Integers, Sequences, FiniteSets

VARIABLES
    f,          \* the Field value a caller of package fields holds
    call,       \* the constructor call that produced f, and its arguments
    fs,         \* the field list a call site passes to the logger
    coreLevel,  \* the minimum level of the logger's zap core
    calls,      \* per producer function: how often it has been invoked
    res,        \* the outcome of the last toZapFields: its output, or a panic
    lvl,        \* the severity of the last toZapFields
    entry,      \* the keys the last log call added to the encoder of its entry
    clock,      \* the wall clock, as time.Now() reads it
    prev,       \* calls as it was before the last log call
    pc,         \* "build" until the call site has logged fs, then "logged"
    bound,      \* what With and New have added to the encoder of the logger
    es,         \* the []error an errorArray wraps
    arr,        \* what errorArray.MarshalLogArray appended to the array encoder
    level,      \* a logstox.Level value a caller holds
    conv        \* the last conversion between a Level and text, and its results

vars == <<f, call, fs, coreLevel, calls, res, lvl, entry, clock, prev, pc, bound, es, arr, level, conv>>

(***************************************************************************)
(* Bounds of the model.                                                    *)
(***************************************************************************)
MaxNodes == 2
MaxClock == 2
MaxDepth == 2
MaxErrs == 4
LevelSlack == 2

\* no conversion between a Level and text has been made
NoConv == [fn |-> "none", text |-> <<>>, val |-> 0, fail |-> FALSE]

(***************************************************************************)
(* fields.FieldKind                                                        *)
(***************************************************************************)
FieldKindInvalid == 0
FieldKindAny == 1
FieldKindString == 2
FieldKindBool == 3
FieldKindInt64 == 4
FieldKindUint64 == 5
FieldKindFloat64 == 6
FieldKindTime == 7
FieldKindDuration == 8
FieldKindError == 9
FieldKindStrings == 10
FieldKindBools == 11
FieldKindInt64s == 12
FieldKindUint64s == 13
FieldKindFloat64s == 14
FieldKindErrors == 15
FieldKindDict == 16
FieldKindRawJSON == 17
FieldKindHexBytes == 18
FieldKindLazyFields == 19
FieldKindLazyValue == 20
FieldKindTimestamp == 21

ErrorKey == "error"
TimestampKey == "ts"

(***************************************************************************)
(* Go values: the dynamic type and the value an interface holds.           *)
(***************************************************************************)
GoVal(t, v) == [t |-> t, v |-> v]

\* the nil interface value (an `any` or an `error` holding nothing)
GoNil == GoVal("nil", "nil")

\* x == nil, for an interface, a func or an error value x
IsNil(x) == x.t = "nil"

\* struct{}{}
EmptyStruct == GoVal("struct{}", "{}")

\* the dynamic types that implement the error interface
ErrorTypes == {"*errors.errorString"}

\* Go's integer and float types
SignedTypes == {"int", "int8", "int16", "int32", "int64"}
UnsignedTypes == {"uint", "uint8", "uint16", "uint32", "uint64"}
FloatTypes == {"float32", "float64"}

(***************************************************************************)
(* fields.Field and its methods                                            *)
(***************************************************************************)
\* (a record lists its members in the order the module first names them)
MkField(k, kd, v) == [Key |-> k, kind |-> kd, Value |-> v]

\* the zero value Field{}
ZeroField == MkField("", FieldKindInvalid, GoNil)

Kind(x) == x.kind

Nop == MkField("", FieldKindInvalid, EmptyStruct)

IsZero(x) == x.kind = FieldKindInvalid

IsSkipWhenZero(x) == IsZero(x)

IsSkip(x) == ~IsZero(x)

(***************************************************************************)
(* The constructors of package fields.                                     *)
(***************************************************************************)
Any(k, v) == MkField(k, FieldKindAny, v)

String(k, v) == MkField(k, FieldKindString, v)

Bool(k, v) == MkField(k, FieldKindBool, v)

IntNotWidened(k, v) == MkField(k, FieldKindInt64, v)

\* fields.Int (Int is the set of integers here); int64(v): the value is kept, the type becomes int64
Int_(k, v) == MkField(k, FieldKindInt64, GoVal("int64", v.v))

Int64(k, v) == MkField(k, FieldKindInt64, v)

\* uint64(v)
Uint(k, v) == MkField(k, FieldKindUint64, GoVal("uint64", v.v))

Uint64(k, v) == MkField(k, FieldKindUint64, v)

Float64(k, v) == MkField(k, FieldKindFloat64, v)

TimeField(k, v) == MkField(k, FieldKindTime, v)

Duration(k, v) == MkField(k, FieldKindDuration, v)

Error(err) ==
    IF IsNil(err) THEN Nop
    ELSE MkField(ErrorKey, FieldKindError, err)

NamedErrorKeepsKey(k, err) ==
    IF IsNil(err) THEN MkField(k, FieldKindInvalid, EmptyStruct)
    ELSE MkField(k, FieldKindError, err)

NamedError(k, err) ==
    IF IsNil(err) THEN Nop
    ELSE MkField(k, FieldKindError, err)

Strings(k, v) == MkField(k, FieldKindStrings, v)

Bools(k, v) == MkField(k, FieldKindBools, v)

Int64s(k, v) == MkField(k, FieldKindInt64s, v)

Uint64s(k, v) == MkField(k, FieldKindUint64s, v)

Float64s(k, v) == MkField(k, FieldKindFloat64s, v)

Errors(k, v) == MkField(k, FieldKindErrors, v)

\* Dict(k, fields...): the variadic slice is stored as it is
Dict(k, fields) == MkField(k, FieldKindDict, GoVal("[]Field", fields))

RawJSON(k, json) == MkField(k, FieldKindRawJSON, json)

Hex(k, b) == MkField(k, FieldKindHexBytes, b)

LazyFields(fn) ==
    IF IsNil(fn) THEN ZeroField
    ELSE MkField("", FieldKindLazyFields, fn)

\* the closure func(context.Context) []Field { return fn() } that Lazy builds:
\* a new function value that remembers fn
LazyClosure(fn) == GoVal("func(context.Context) []Field", <<"Lazy.func1", fn.v[1]>>)

Lazy(fn) ==
    IF IsNil(fn) THEN ZeroField
    ELSE LazyFields(LazyClosure(fn))

Timestamp(t) == MkField(TimestampKey, FieldKindTimestamp, t)

TimestampAt(k, t) == MkField(k, FieldKindTimestamp, t)

FromDropsKey(k, v) ==
    CASE v.t = "string" -> String(k, v)
      [] v.t = "bool" -> Bool(k, v)
      [] v.t = "int" -> Int_(k, v)
      [] v.t = "int64" -> Int64(k, v)
      [] v.t = "uint" -> Uint(k, v)
      [] v.t = "uint64" -> Uint64(k, v)
      [] v.t = "float64" -> Float64(k, v)
      [] v.t = "time.Time" -> TimeField(k, v)
      [] v.t = "time.Duration" -> Duration(k, v)
      [] v.t \in ErrorTypes -> Error(v)
      [] OTHER -> Any(k, v)

\* the type switch of From: a case matches the dynamic type of v exactly, the
\* case `error` matches every dynamic type that implements error, and the nil
\* interface matches no case
From(k, v) ==
    CASE v.t = "string" -> String(k, v)
      [] v.t = "bool" -> Bool(k, v)
      [] v.t = "int" -> Int_(k, v)
      [] v.t = "int64" -> Int64(k, v)
      [] v.t = "uint" -> Uint(k, v)
      [] v.t = "uint64" -> Uint64(k, v)
      [] v.t = "float64" -> Float64(k, v)
      [] v.t = "time.Time" -> TimeField(k, v)
      [] v.t = "time.Duration" -> Duration(k, v)
      [] v.t \in ErrorTypes -> NamedError(k, v)
      [] OTHER -> Any(k, v)

(***************************************************************************)
(* The values callers pass to the constructors.                            *)
(***************************************************************************)
Keys == {"a", "b"}

StringVals == {GoVal("string", "alice")}
BoolVals == {GoVal("bool", TRUE)}
IntVals == {GoVal("int", 7)}
Int64Vals == {GoVal("int64", 7)}
UintVals == {GoVal("uint", 7)}
Uint64Vals == {GoVal("uint64", 7)}
\* a float is written as its decimal text
Float64Vals == {GoVal("float64", "1.5")}
\* a time.Time is a count of ticks; 0 is the zero Time (IsZero)
ZeroTime == GoVal("time.Time", 0)
TimeVals == {ZeroTime, GoVal("time.Time", 1)}
DurationVals == {GoVal("time.Duration", 3)}
Boom == GoVal("*errors.errorString", "boom")
\* an error argument: a non-nil error or nil
Bang == GoVal("*errors.errorString", "bang")
ErrVals == {Boom, GoNil}
StringsVals == {GoVal("[]string", <<"x", "y">>)}
BoolsVals == {GoVal("[]bool", <<TRUE, FALSE>>)}
Int64sVals == {GoVal("[]int64", <<1, 2>>)}
Uint64sVals == {GoVal("[]uint64", <<1, 2>>)}
Float64sVals == {GoVal("[]float64", <<"1.5">>)}
ErrorsVals == {GoVal("[]error", <<Boom, GoNil>>)}
\* the bytes of {} and the bytes de ad
JSONVals == {GoVal("[]byte", <<123, 125>>)}
BytesVals == {GoVal("[]byte", <<222, 173>>)}

\* the producer functions a caller writes: each counts its invocations in
\* calls and returns ProducerResult; a function value is its name
Producers == {"p0", "p1", "p2"}
CtxProducers == {"c1"}
FuncVals == {GoVal("func() []Field", <<p>>) : p \in Producers} \cup {GoNil}
CtxFuncVals == {GoVal("func(context.Context) []Field", <<p>>) : p \in CtxProducers} \cup {GoNil}

ProducerResult(p) ==
    CASE p = "p0" -> <<>>
      [] p = "p1" -> <<String("a", GoVal("string", "alice"))>>
      [] p = "p2" -> <<String("a", GoVal("string", "alice")), Int64("b", GoVal("int64", 7))>>
      [] p = "c1" -> <<Bool("a", GoVal("bool", TRUE))>>

\* what a caller can pass as the `any` argument of Any and From
AnyVals ==
    StringVals \cup BoolVals \cup IntVals \cup Int64Vals \cup UintVals \cup Uint64Vals
    \cup Float64Vals \cup TimeVals \cup DurationVals \cup ErrVals \cup StringsVals
    \cup {GoVal("int8", 7), GoVal("int16", 7), GoVal("int32", 7),
          GoVal("uint8", 7), GoVal("uint16", 7), GoVal("uint32", 7),
          GoVal("float32", "1.5"), EmptyStruct}

(***************************************************************************)
(* A caller of package fields: each action is one constructor call, whose  *)
(* result the caller holds in f; SetKey and SetValue assign to the         *)
(* exported members of the Field.                                          *)
(***************************************************************************)
\* how deep the Dict fields of x nest
RECURSIVE Depth(_)
Depth(x) ==
    IF x.kind = FieldKindDict /\ x.Value.t = "[]Field"
    THEN IF x.Value.v = <<>> THEN 1 ELSE 1 + Depth(x.Value.v[1])
    ELSE 0

NoCall == [ctor |-> "none", key |-> "", arg |-> GoNil]

Called(c, k, v, x) ==
    /\ f' = x
    /\ call' = [ctor |-> c, key |-> k, arg |-> v]
    /\ UNCHANGED <<fs, coreLevel, calls, res, lvl, entry, clock, prev, pc, bound, es, arr, level, conv>>

CallNop == Called("Nop", "", GoNil, Nop)
CallAny == \E k \in Keys, v \in AnyVals : Called("Any", k, v, Any(k, v))
CallString == \E k \in Keys, v \in StringVals : Called("String", k, v, String(k, v))
CallBool == \E k \in Keys, v \in BoolVals : Called("Bool", k, v, Bool(k, v))
CallInt == \E k \in Keys, v \in IntVals : Called("Int", k, v, Int_(k, v))
CallInt64 == \E k \in Keys, v \in Int64Vals : Called("Int64", k, v, Int64(k, v))
CallUint == \E k \in Keys, v \in UintVals : Called("Uint", k, v, Uint(k, v))
CallUint64 == \E k \in Keys, v \in Uint64Vals : Called("Uint64", k, v, Uint64(k, v))
CallFloat64 == \E k \in Keys, v \in Float64Vals : Called("Float64", k, v, Float64(k, v))
CallTimeField == \E k \in Keys, v \in TimeVals : Called("TimeField", k, v, TimeField(k, v))
CallDuration == \E k \in Keys, v \in DurationVals : Called("Duration", k, v, Duration(k, v))
CallError == \E v \in ErrVals : Called("Error", "", v, Error(v))
CallNamedError == \E k \in Keys, v \in ErrVals : Called("NamedError", k, v, NamedError(k, v))
CallStrings == \E k \in Keys, v \in StringsVals : Called("Strings", k, v, Strings(k, v))
CallBools == \E k \in Keys, v \in BoolsVals : Called("Bools", k, v, Bools(k, v))
CallInt64s == \E k \in Keys, v \in Int64sVals : Called("Int64s", k, v, Int64s(k, v))
CallUint64s == \E k \in Keys, v \in Uint64sVals : Called("Uint64s", k, v, Uint64s(k, v))
CallFloat64s == \E k \in Keys, v \in Float64sVals : Called("Float64s", k, v, Float64s(k, v))
CallErrors == \E k \in Keys, v \in ErrorsVals : Called("Errors", k, v, Errors(k, v))
\* Dict over the Field the caller holds, or over no Field
CallDict ==
    \E k \in Keys, sub \in {<<>>} \cup (IF Depth(f) < MaxDepth THEN {<<f>>} ELSE {}) :
        Called("Dict", k, GoVal("[]Field", sub), Dict(k, sub))
CallRawJSON == \E k \in Keys, v \in JSONVals : Called("RawJSON", k, v, RawJSON(k, v))
CallHex == \E k \in Keys, v \in BytesVals : Called("Hex", k, v, Hex(k, v))
CallLazyFields == \E v \in CtxFuncVals : Called("LazyFields", "", v, LazyFields(v))
CallLazy == \E v \in FuncVals : Called("Lazy", "", v, Lazy(v))
CallTimestamp == \E v \in TimeVals : Called("Timestamp", "", v, Timestamp(v))
CallTimestampAt == \E k \in Keys, v \in TimeVals : Called("TimestampAt", k, v, TimestampAt(k, v))
CallFrom == \E k \in Keys, v \in AnyVals : Called("From", k, v, From(k, v))

\* f.Key = k, from any package
SetKey ==
    /\ call.ctor # "none"
    /\ \E k \in Keys :
        /\ f' = [f EXCEPT !.Key = k]
        /\ call' = [ctor |-> "SetKey", key |-> k, arg |-> GoNil]
    /\ UNCHANGED <<fs, coreLevel, calls, res, lvl, entry, clock, prev, pc, bound, es, arr, level, conv>>

\* f.Value = v, from any package
SetValue ==
    /\ call.ctor # "none"
    /\ \E v \in StringVals \cup Int64Vals \cup {GoNil} :
        /\ f' = [f EXCEPT !.Value = v]
        /\ call' = [ctor |-> "SetValue", key |-> "", arg |-> v]
    /\ UNCHANGED <<fs, coreLevel, calls, res, lvl, entry, clock, prev, pc, bound, es, arr, level, conv>>

NoResult == [out |-> <<>>, panic |-> FALSE]

InitFields ==
    /\ f = ZeroField
    /\ call = NoCall
    /\ fs = <<>>
    /\ coreLevel = 0
    /\ calls = [p \in Producers \cup CtxProducers |-> 0]
    /\ res = NoResult
    /\ lvl = 0
    /\ entry = <<>>
    /\ clock = 1
    /\ prev = calls
    /\ pc = "build"
    /\ bound = <<>>
    /\ es = <<>>
    /\ arr = <<>>
    /\ level = 0
    /\ conv = NoConv

NextFields ==
    \/ CallNop
    \/ CallAny
    \/ CallString
    \/ CallBool
    \/ CallInt
    \/ CallInt64
    \/ CallUint
    \/ CallUint64
    \/ CallFloat64
    \/ CallTimeField
    \/ CallDuration
    \/ CallError
    \/ CallNamedError
    \/ CallStrings
    \/ CallBools
    \/ CallInt64s
    \/ CallUint64s
    \/ CallFloat64s
    \/ CallErrors
    \/ CallDict
    \/ CallRawJSON
    \/ CallHex
    \/ CallLazyFields
    \/ CallLazy
    \/ CallTimestamp
    \/ CallTimestampAt
    \/ CallFrom
    \/ SetKey
    \/ SetValue

SpecFields == InitFields /\ [][NextFields]_vars

(***************************************************************************)
(* zap: the field constructors and the level check the translator calls.   *)
(***************************************************************************)
ZapField(k, ty, v) == [Key |-> k, Type |-> ty, Val |-> v]

\* zap.Skip(): a field the encoder ignores
ZapSkip == ZapField("", "SkipType", GoNil)

\* zap.NamedError: a nil error gives zap.Skip()
ZapNamedError(k, err) ==
    IF IsNil(err) THEN ZapSkip ELSE ZapField(k, "ErrorType", err)

\* zap.Error(err) is zap.NamedError("error", err)
ZapError(err) == ZapNamedError("error", err)

\* zap.Any: the typed constructor for the dynamic type of v, else zap.Reflect
ZapAny(k, v) ==
    CASE v.t = "string" -> ZapField(k, "StringType", v)
      [] v.t = "bool" -> ZapField(k, "BoolType", v)
      [] v.t \in SignedTypes -> ZapField(k, "Int64Type", v)
      [] v.t \in UnsignedTypes -> ZapField(k, "Uint64Type", v)
      [] v.t \in FloatTypes -> ZapField(k, "Float64Type", v)
      [] v.t = "time.Time" -> ZapField(k, "TimeType", v)
      [] v.t = "time.Duration" -> ZapField(k, "DurationType", v)
      [] v.t \in ErrorTypes -> ZapNamedError(k, v)
      [] v.t = "[]string" -> ZapField(k, "ArrayMarshalerType", v)
      [] OTHER -> ZapField(k, "ReflectType", v)

\* l.Core().Enabled(lvl) of a core built on the level core
Enabled(core, l) == l >= core

\* hex.EncodeToString
HexDigits == <<"0", "1", "2", "3", "4", "5", "6", "7", "8", "9", "a", "b", "c", "d", "e", "f">>

RECURSIVE EncodeToString(_)
EncodeToString(b) ==
    IF b = <<>> THEN ""
    ELSE HexDigits[(b[1] \div 16) + 1] \o HexDigits[(b[1] % 16) + 1] \o EncodeToString(Tail(b))

\* json.RawMessage(b): the same bytes under the type json.RawMessage
RawMessage(b) == GoVal("json.RawMessage", b.v)

\* zapx.Native(zf): an Any Field that carries native{zf: zf}
NativeKey == "__zap_native__"

Native(zf) == Any(NativeKey, GoVal("zapx.native", zf))

(***************************************************************************)
(* toZapFields.  The result is the slice returned, or a panic (a failed    *)
(* type assertion), and the invocation counts of the producers.            *)
(***************************************************************************)
Result(o, p, c) == [out |-> o, panic |-> p, counts |-> c]

\* out = append(out, zf)
Emit(acc, zf) == Result(Append(acc.out, zf), FALSE, acc.counts)

\* f.Value.(T) fails
Panic(acc) == Result(acc.out, TRUE, acc.counts)

\* f.Value.(T) for the field x: build(x.Value) is appended when the dynamic
\* type of the payload is one of ts
Assert1(acc, x, ts, zf) ==
    IF x.Value.t \in ts THEN Emit(acc, zf) ELSE Panic(acc)

\* zap.Object(f.Key, dictMarshaler{fs: ...}): the sub-fields are encoded when
\* the entry is written (MarshalLogObject)
ZapObject(k, sub) == ZapField(k, "ObjectMarshalerType", GoVal("dictMarshaler", sub))

\* a default case that panics on a Kind without a case
UnknownKindPanics(acc) == Panic(acc)

\* default: out = append(out, zap.Skip())
UnknownKind(acc) == Emit(acc, ZapSkip)

RECURSIVE toZapFieldsFrom(_, _, _, _, _)
\* the body of the loop of toZapFields for the field xs[i], then the rest
toZapFieldsFrom(enabled, xs, i, acc, now) ==
    IF i > Len(xs) \/ acc.panic THEN acc
    ELSE
    LET x == xs[i]
        k == x.Key
        v == x.Value
        next ==
          IF IsSkip(x) THEN acc
          ELSE
          CASE Kind(x) = FieldKindLazyValue ->
                 IF ~enabled THEN acc
                 ELSE IF v.t # "func() []Field" THEN Panic(acc)
                 ELSE LET p == v.v[1]
                          sub == toZapFieldsFrom(enabled, ProducerResult(p), 1,
                                     Result(<<>>, FALSE, [acc.counts EXCEPT ![p] = @ + 1]), now)
                      IN  Result(acc.out \o sub.out, sub.panic, sub.counts)
            [] Kind(x) = FieldKindDict -> Assert1(acc, x, {"[]Field"}, ZapObject(k, v.v))
            [] Kind(x) = FieldKindRawJSON ->
                 Assert1(acc, x, {"[]byte"}, ZapField(k, "ReflectType", RawMessage(v)))
            [] Kind(x) = FieldKindHexBytes ->
                 IF v.t = "[]byte"
                 THEN Emit(acc, ZapField(k, "StringType", GoVal("string", EncodeToString(v.v))))
                 ELSE Panic(acc)
            [] Kind(x) = FieldKindTimestamp ->
                 IF v.t = "time.Time"
                 THEN Emit(acc, ZapField(k, "TimeType", IF v.v = 0 THEN GoVal("time.Time", now) ELSE v))
                 ELSE Panic(acc)
            [] Kind(x) = FieldKindString -> Assert1(acc, x, {"string"}, ZapField(k, "StringType", v))
            [] Kind(x) = FieldKindBool -> Assert1(acc, x, {"bool"}, ZapField(k, "BoolType", v))
            [] Kind(x) = FieldKindInt64 -> Assert1(acc, x, {"int64"}, ZapField(k, "Int64Type", v))
            [] Kind(x) = FieldKindUint64 -> Assert1(acc, x, {"uint64"}, ZapField(k, "Uint64Type", v))
            [] Kind(x) = FieldKindFloat64 -> Assert1(acc, x, {"float64"}, ZapField(k, "Float64Type", v))
            [] Kind(x) = FieldKindDuration ->
                 Assert1(acc, x, {"time.Duration"}, ZapField(k, "DurationType", v))
            [] Kind(x) = FieldKindTime -> Assert1(acc, x, {"time.Time"}, ZapField(k, "TimeType", v))
            [] Kind(x) = FieldKindError ->
                 IF v.t \notin ErrorTypes THEN Panic(acc)
                 ELSE IF k = "" \/ k = ErrorKey THEN Emit(acc, ZapError(v))
                 ELSE Emit(acc, ZapNamedError(k, v))
            [] Kind(x) = FieldKindStrings ->
                 Assert1(acc, x, {"[]string"}, ZapField(k, "ArrayMarshalerType", v))
            [] Kind(x) = FieldKindBools ->
                 Assert1(acc, x, {"[]bool"}, ZapField(k, "ArrayMarshalerType", v))
            [] Kind(x) = FieldKindInt64s ->
                 Assert1(acc, x, {"[]int64"}, ZapField(k, "ArrayMarshalerType", v))
            [] Kind(x) = FieldKindUint64s ->
                 Assert1(acc, x, {"[]uint64"}, ZapField(k, "ArrayMarshalerType", v))
            [] Kind(x) = FieldKindFloat64s ->
                 Assert1(acc, x, {"[]float64"}, ZapField(k, "ArrayMarshalerType", v))
            [] Kind(x) = FieldKindErrors ->
                 Assert1(acc, x, {"[]error"}, ZapField(k, "ArrayMarshalerType", v))
            [] Kind(x) = FieldKindAny -> Emit(acc, ZapAny(k, v))
            [] OTHER -> UnknownKind(acc)
    IN  toZapFieldsFrom(enabled, xs, i + 1, next, now)

\* toZapFields(l, lvl, fs...) on a logger whose core has the level core, with
\* the producers' counts c before the call and the clock at now
toZapFields(core, l, xs, c, now) ==
    IF Len(xs) = 0 THEN Result(<<>>, FALSE, c)
    ELSE toZapFieldsFrom(Enabled(core, l), xs, 1, Result(<<>>, FALSE, c), now)

(***************************************************************************)
(* dictMarshaler.MarshalLogObject and the array marshalers: what they add  *)
(* to the encoder, in order, or a panic.                                   *)
(***************************************************************************)
Encoded(o, p) == [out |-> o, panic |-> p]

\* enc.AddString(k, v) and the like: one key of the open object
Added(k, op, v) == [Key |-> k, Add |-> op, Arg |-> v]

\* err.Error()
ErrorMessage(err) == err.v

\* stringArray, boolArray, int64Array, uint64Array, float64Array: one Append
\* per element, in order
MarshalLogArray(elem, a) == [i \in 1..Len(a) |-> GoVal(elem, a[i])]

NonNil(e) == ~IsNil(e)

\* an errorArray that skips its nil elements
ErrorArraySkipsNil(a) ==
    [i \in 1..Len(SelectSeq(a, NonNil)) |-> GoVal("string", ErrorMessage(SelectSeq(a, NonNil)[i]))]

\* errorArray.MarshalLogArray
ErrorArrayMarshalLogArray(a) ==
    [i \in 1..Len(a) |->
        IF ~IsNil(a[i]) THEN GoVal("string", ErrorMessage(a[i]))
        ELSE GoVal("string", "<nil>")]

\* enc.AddX(f.Key, f.Value.(T))
AddAsserted(acc, x, ts, op, v) ==
    IF x.Value.t \in ts THEN Encoded(Append(acc.out, Added(x.Key, op, v)), FALSE)
    ELSE Encoded(acc.out, TRUE)

RECURSIVE MarshalLogObjectFrom(_, _, _, _)
\* the body of the loop of MarshalLogObject for the field xs[i], then the rest
MarshalLogObjectFrom(xs, i, acc, now) ==
    IF i > Len(xs) \/ acc.panic THEN acc
    ELSE
    LET x == xs[i]
        k == x.Key
        v == x.Value
        next ==
          IF IsSkip(x) THEN acc
          ELSE
          CASE Kind(x) = FieldKindString -> AddAsserted(acc, x, {"string"}, "AddString", v)
            [] Kind(x) = FieldKindBool -> AddAsserted(acc, x, {"bool"}, "AddBool", v)
            [] Kind(x) = FieldKindInt64 -> AddAsserted(acc, x, {"int64"}, "AddInt64", v)
            [] Kind(x) = FieldKindUint64 -> AddAsserted(acc, x, {"uint64"}, "AddUint64", v)
            [] Kind(x) = FieldKindFloat64 -> AddAsserted(acc, x, {"float64"}, "AddFloat64", v)
            [] Kind(x) = FieldKindDuration ->
                 AddAsserted(acc, x, {"time.Duration"}, "AddDuration", v)
            [] Kind(x) = FieldKindTime -> AddAsserted(acc, x, {"time.Time"}, "AddTime", v)
            [] Kind(x) = FieldKindError ->
                 IF v.t \in ErrorTypes
                 THEN AddAsserted(acc, x, ErrorTypes, "AddString", GoVal("string", ErrorMessage(v)))
                 ELSE Encoded(acc.out, TRUE)
            [] Kind(x) = FieldKindStrings ->
                 IF v.t = "[]string"
                 THEN AddAsserted(acc, x, {"[]string"}, "AddArray",
                          GoVal("array", MarshalLogArray("string", v.v)))
                 ELSE Encoded(acc.out, TRUE)
            [] Kind(x) = FieldKindBools ->
                 IF v.t = "[]bool"
                 THEN AddAsserted(acc, x, {"[]bool"}, "AddArray",
                          GoVal("array", MarshalLogArray("bool", v.v)))
                 ELSE Encoded(acc.out, TRUE)
            [] Kind(x) = FieldKindInt64s ->
                 IF v.t = "[]int64"
                 THEN AddAsserted(acc, x, {"[]int64"}, "AddArray",
                          GoVal("array", MarshalLogArray("int64", v.v)))
                 ELSE Encoded(acc.out, TRUE)
            [] Kind(x) = FieldKindUint64s ->
                 IF v.t = "[]uint64"
                 THEN AddAsserted(acc, x, {"[]uint64"}, "AddArray",
                          GoVal("array", MarshalLogArray("uint64", v.v)))
                 ELSE Encoded(acc.out, TRUE)
            [] Kind(x) = FieldKindFloat64s ->
                 IF v.t = "[]float64"
                 THEN AddAsserted(acc, x, {"[]float64"}, "AddArray",
                          GoVal("array", MarshalLogArray("float64", v.v)))
                 ELSE Encoded(acc.out, TRUE)
            [] Kind(x) = FieldKindErrors ->
                 IF v.t = "[]error"
                 THEN AddAsserted(acc, x, {"[]error"}, "AddArray",
                          GoVal("array", ErrorArrayMarshalLogArray(v.v)))
                 ELSE Encoded(acc.out, TRUE)
            [] Kind(x) = FieldKindDict ->
                 IF v.t # "[]Field" THEN Encoded(acc.out, TRUE)
                 ELSE LET sub == MarshalLogObjectFrom(v.v, 1, Encoded(<<>>, FALSE), now)
                      IN  Encoded(Append(acc.out, Added(k, "AddObject", GoVal("object", sub.out))),
                                  sub.panic)
            [] Kind(x) = FieldKindRawJSON ->
                 AddAsserted(acc, x, {"[]byte"}, "AddReflected", RawMessage(v))
            [] Kind(x) = FieldKindHexBytes ->
                 IF v.t = "[]byte"
                 THEN AddAsserted(acc, x, {"[]byte"}, "AddString",
                          GoVal("string", EncodeToString(v.v)))
                 ELSE Encoded(acc.out, TRUE)
            [] Kind(x) = FieldKindTimestamp ->
                 AddAsserted(acc, x, {"time.Time"}, "AddTime",
                     IF v.v = 0 THEN GoVal("time.Time", now) ELSE v)
            [] Kind(x) = FieldKindAny ->
                 Encoded(Append(acc.out, Added(k, "AddReflected", v)), FALSE)
            [] Kind(x) = FieldKindLazyValue -> acc
            [] OTHER -> acc
    IN  MarshalLogObjectFrom(xs, i + 1, next, now)

\* dictMarshaler{fs: xs}.MarshalLogObject(enc)
MarshalLogObject(xs, now) == MarshalLogObjectFrom(xs, 1, Encoded(<<>>, FALSE), now)

(***************************************************************************)
(* logstox.Level / zapcore.Level                                           *)
(***************************************************************************)
DebugLevel == -1
InfoLevel == 0
WarnLevel == 1
ErrorLevel == 2
DPanicLevel == 3
PanicLevel == 4
FatalLevel == 5

(***************************************************************************)
(* A call site of the zap-backed logger.  It builds the argument list fs   *)
(* from Fields the constructors return, then logs it; the same list may be *)
(* logged again.                                                           *)
(***************************************************************************)
\* the levels of the logger's core, and the levels logged at
CoreLevels == {InfoLevel, WarnLevel}
LogLevels == {InfoLevel, WarnLevel}

\* the zap fields a call site wraps with Native
NativeVals == {ZapField("n", "StringType", GoVal("string", "x"))}

\* the Fields a call site passes: what the constructors return
ArgFields ==
    {Nop, Lazy(GoNil)}
    \cup {Any("a", EmptyStruct)}
    \cup {String(k, v) : k \in Keys, v \in StringVals}
    \cup {Bool("a", v) : v \in BoolVals}
    \cup {Int_("a", v) : v \in IntVals}
    \cup {Int64("a", v) : v \in Int64Vals}
    \cup {Uint("a", v) : v \in UintVals}
    \cup {Uint64("a", v) : v \in Uint64Vals}
    \cup {Float64("a", v) : v \in Float64Vals}
    \cup {TimeField("a", GoVal("time.Time", 1))}
    \cup {Duration("a", v) : v \in DurationVals}
    \cup {Error(Boom), NamedError("a", Boom)}
    \cup {Strings("a", v) : v \in StringsVals}
    \cup {Bools("a", v) : v \in BoolsVals}
    \cup {Int64s("a", v) : v \in Int64sVals}
    \cup {Uint64s("a", v) : v \in Uint64sVals}
    \cup {Float64s("a", v) : v \in Float64sVals}
    \cup {Errors("a", v) : v \in ErrorsVals}
    \cup {RawJSON("a", v) : v \in JSONVals}
    \cup {Hex("a", v) : v \in BytesVals}
    \cup {LazyFields(v) : v \in CtxFuncVals}
    \cup {Lazy(v) : v \in FuncVals}
    \cup {Timestamp(ZeroTime), TimestampAt("a", GoVal("time.Time", 1))}
    \cup {Native(zf) : zf \in NativeVals}

\* the number of Fields in xs, those inside Dict payloads included
RECURSIVE Nodes(_)
Nodes(xs) ==
    IF xs = <<>> THEN 0
    ELSE 1 + (IF Kind(xs[1]) = FieldKindDict THEN Nodes(xs[1].Value.v) ELSE 0) + Nodes(Tail(xs))

\* the call site appends a Field to its argument list
Arg ==
    /\ pc = "build"
    /\ Nodes(fs) < MaxNodes
    /\ \E x \in ArgFields : fs' = Append(fs, x)
    /\ UNCHANGED <<f, call, coreLevel, calls, res, lvl, entry, clock, prev, pc, bound, es, arr, level, conv>>

\* the call site groups its argument list under one key: Dict(k, fs...)
GroupDict ==
    /\ pc = "build"
    /\ Nodes(fs) < MaxNodes
    /\ \E k \in Keys : fs' = <<Dict(k, fs)>>
    /\ UNCHANGED <<f, call, coreLevel, calls, res, lvl, entry, clock, prev, pc, bound, es, arr, level, conv>>

\* zap's Field.AddTo for each field of the entry: a Skip field adds nothing,
\* an object field runs its marshaler
RECURSIVE AddTo(_, _, _, _)
AddTo(zfs, i, acc, now) ==
    IF i > Len(zfs) \/ acc.panic THEN acc
    ELSE
    LET zf == zfs[i]
        next ==
          CASE zf.Type = "SkipType" -> acc
            [] zf.Type = "ObjectMarshalerType" ->
                 LET sub == MarshalLogObject(zf.Val.v, now)
                 IN  Encoded(Append(acc.out, Added(zf.Key, "AddObject", GoVal("object", sub.out))),
                             sub.panic)
            [] OTHER -> Encoded(Append(acc.out, Added(zf.Key, zf.Type, zf.Val)), FALSE)
    IN  AddTo(zfs, i + 1, next, now)

\* lg.l.Debug(m, toZapFields(lg.l, zapcore.DebugLevel, f...)...) and the six
\* other leveled methods: the fields are translated, then zap writes the
\* entry if the level is enabled.  The call takes one tick of the clock.
Log ==
    /\ clock <= MaxClock
    /\ \E l \in LogLevels :
        LET r == toZapFields(coreLevel, l, fs, calls, clock)
            e == IF r.panic \/ ~Enabled(coreLevel, l) THEN Encoded(<<>>, r.panic)
                 ELSE AddTo(r.out, 1, Encoded(<<>>, FALSE), clock)
        IN  /\ res' = [out |-> r.out, panic |-> r.panic \/ e.panic]
            /\ calls' = r.counts
            /\ entry' = e.out
            /\ lvl' = l
    /\ prev' = calls
    /\ clock' = clock + 1
    /\ pc' = "logged"
    /\ UNCHANGED <<f, call, fs, coreLevel, bound, es, arr, level, conv>>

\* time passes
Tick ==
    /\ clock < MaxClock
    /\ clock' = clock + 1
    /\ UNCHANGED <<f, call, fs, coreLevel, calls, res, lvl, entry, prev, pc, bound, es, arr, level, conv>>

Init ==
    /\ f = ZeroField
    /\ call = NoCall
    /\ fs = <<>>
    /\ coreLevel \in CoreLevels
    /\ calls = [p \in Producers \cup CtxProducers |-> 0]
    /\ res = NoResult
    /\ lvl = InfoLevel
    /\ entry = <<>>
    /\ clock = 1
    /\ prev = calls
    /\ pc = "build"
    /\ bound = <<>>
    /\ es = <<>>
    /\ arr = <<>>
    /\ level = 0
    /\ conv = NoConv

Next ==
    \/ Arg
    \/ GroupDict
    \/ Log
    \/ Tick

Spec == Init /\ [][Next]_vars

(***************************************************************************)
(* Claims about the translation, checked under Spec.                       *)
(***************************************************************************)
IsLazy(x) == Kind(x) \in {FieldKindLazyFields, FieldKindLazyValue}

IsNoOp(x) == Kind(x) = FieldKindInvalid

NotLazy(x) == ~IsLazy(x)

NotNoOp(x) == ~IsNoOp(x)

\* the producer function a lazy Field runs: its payload, or the function the
\* closure of Lazy wraps
ProducerOf(x) ==
    IF x.Value.v[1] = "Lazy.func1" THEN x.Value.v[2] ELSE x.Value.v[1]

\* how many Fields of xs are lazy Fields that run p
Occurrences(p, xs) ==
    Cardinality({i \in DOMAIN xs : IsLazy(xs[i]) /\ ProducerOf(xs[i]) = p})

\* what toZapFields returns for the one Field x, at the level of the last call
Alone(x) == toZapFields(coreLevel, lvl, <<x>>, calls, clock).out

Logged == pc = "logged" /\ ~res.panic

\* C1: when toZapFields translates at a severity the core does not enable,
\* no producer is invoked (the counters are as before the call) and each
\* lazy Field contributes no output entry: alone it translates to nothing,
\* and the output is as long as that of the list without its lazy Fields.
C1_DisabledRunsNoProducer ==
    (Logged /\ ~Enabled(coreLevel, lvl)) =>
        /\ calls = prev
        /\ \A i \in DOMAIN fs : IsLazy(fs[i]) => Alone(fs[i]) = <<>>
        /\ Len(res.out) =
             Len(toZapFields(coreLevel, lvl, SelectSeq(fs, NotLazy), calls, clock).out)

C1_Witness ==
    /\ Logged /\ ~Enabled(coreLevel, lvl)
    /\ Len(fs) = 2
    /\ IsLazy(fs[1]) /\ ProducerOf(fs[1]) = "p2"
    /\ IsNoOp(fs[2])

\* C2: when a list that holds a lazy Field built by Lazy or LazyFields with
\* a non-nil producer is translated at an enabled severity, the producer is
\* invoked exactly once per translation call (once for each lazy Field of
\* the list that runs it).
C2_EnabledRunsProducerOnce ==
    (Logged /\ Enabled(coreLevel, lvl)) =>
        \A p \in Producers \cup CtxProducers : calls[p] = prev[p] + Occurrences(p, fs)

\* C3: each no-op Field contributes no output element: toZapFields appends
\* no zap field for it, and MarshalLogObject adds no key for it inside a
\* Dict.
C3_NoOpContributesNothing ==
    Logged =>
        \A i \in DOMAIN fs :
            /\ IsNoOp(fs[i]) => Alone(fs[i]) = <<>>
            /\ (Kind(fs[i]) = FieldKindDict) =>
                 MarshalLogObject(fs[i].Value.v, clock).out =
                     MarshalLogObject(SelectSeq(fs[i].Value.v, NotNoOp), clock).out

\* C4: for a list without lazy Fields the output is one-to-one with the
\* Fields that are not no-ops: as long as their number, each of them
\* yielding exactly one zap field.
C4_OneToOne ==
    (Logged /\ \A i \in DOMAIN fs : ~IsLazy(fs[i])) =>
        /\ Len(res.out) = Len(SelectSeq(fs, NotNoOp))
        /\ \A i \in DOMAIN fs : ~IsNoOp(fs[i]) => Len(Alone(fs[i])) = 1

KeysOf(xs) == [i \in 1..Len(xs) |-> xs[i].Key]

\* C5: for a list without lazy Fields the keys of the output are the keys of
\* the Fields that are not no-ops, in input order; and the keys a Dict adds
\* to the encoder are those of its sub-fields that are not no-ops, in order.
C5_KeyOrder ==
    (Logged /\ \A i \in DOMAIN fs : ~IsLazy(fs[i])) =>
        /\ KeysOf(res.out) = KeysOf(SelectSeq(fs, NotNoOp))
        /\ \A i \in DOMAIN fs :
             (Kind(fs[i]) = FieldKindDict /\ \A j \in DOMAIN fs[i].Value.v : ~IsLazy(fs[i].Value.v[j])) =>
                 KeysOf(MarshalLogObject(fs[i].Value.v, clock).out) =
                     KeysOf(SelectSeq(fs[i].Value.v, NotNoOp))

(***************************************************************************)
(* Claims about package fields, checked under SpecFields.                  *)
(***************************************************************************)

\* C6: for every Field, IsZero() and IsSkip() each return true exactly when
\* the Field is the no-op marker (Kind Invalid), and false for every Field of
\* another Kind.
C6_IsSkipIsNoOp ==
    /\ IsZero(f) <=> (Kind(f) = FieldKindInvalid)
    /\ IsSkip(f) <=> (Kind(f) = FieldKindInvalid)

\* The payload type the Kind table gives for each Kind.
PayloadAgrees(kind, v) ==
    CASE kind = FieldKindInvalid -> TRUE
      [] kind = FieldKindAny -> TRUE
      [] kind = FieldKindString -> v.t = "string"
      [] kind = FieldKindBool -> v.t = "bool"
      [] kind = FieldKindInt64 -> v.t = "int64"
      [] kind = FieldKindUint64 -> v.t = "uint64"
      [] kind = FieldKindFloat64 -> v.t = "float64"
      [] kind = FieldKindTime -> v.t = "time.Time"
      [] kind = FieldKindDuration -> v.t = "time.Duration"
      [] kind = FieldKindError -> v.t \in ErrorTypes
      [] kind = FieldKindStrings -> v.t = "[]string"
      [] kind = FieldKindBools -> v.t = "[]bool"
      [] kind = FieldKindInt64s -> v.t = "[]int64"
      [] kind = FieldKindUint64s -> v.t = "[]uint64"
      [] kind = FieldKindFloat64s -> v.t = "[]float64"
      [] kind = FieldKindErrors -> v.t = "[]error"
      [] kind = FieldKindDict -> v.t = "[]Field"
      [] kind = FieldKindRawJSON -> v.t = "[]byte"
      [] kind = FieldKindHexBytes -> v.t = "[]byte"
      [] kind = FieldKindLazyFields -> v.t = "func(context.Context) []Field"
      [] kind = FieldKindLazyValue -> v.t = "func() []Field"
      [] kind = FieldKindTimestamp -> v.t = "time.Time"
      [] OTHER -> FALSE

\* C7: in every state reachable through the public API of package fields
\* (a constructor call, then assignments to the exported members Key and
\* Value), the Kind of the Field and the type of its payload agree.
C7_KindPayloadAgree == PayloadAgrees(Kind(f), f.Value)

\* The Kind documented for each constructor of the claim.
DocumentedKind(c) ==
    CASE c = "Any" -> FieldKindAny
      [] c = "String" -> FieldKindString
      [] c = "Bool" -> FieldKindBool
      [] c \in {"Int", "Int64"} -> FieldKindInt64
      [] c \in {"Uint", "Uint64"} -> FieldKindUint64
      [] c = "Float64" -> FieldKindFloat64
      [] c = "TimeField" -> FieldKindTime
      [] c = "Duration" -> FieldKindDuration
      [] c \in {"Error", "NamedError"} -> FieldKindError
      [] c = "Strings" -> FieldKindStrings
      [] c = "Bools" -> FieldKindBools
      [] c = "Int64s" -> FieldKindInt64s
      [] c = "Uint64s" -> FieldKindUint64s
      [] c = "Float64s" -> FieldKindFloat64s
      [] c = "Errors" -> FieldKindErrors
      [] c = "Dict" -> FieldKindDict
      [] c = "RawJSON" -> FieldKindRawJSON
      [] c = "Hex" -> FieldKindHexBytes
      [] c \in {"LazyFields", "Lazy"} -> FieldKindLazyFields
      [] c \in {"Timestamp", "TimestampAt"} -> FieldKindTimestamp

\* The value passed in, Int and Uint widened to 64 bits.
PassedIn(c, v) ==
    CASE c = "Int" -> GoVal("int64", v.v)
      [] c = "Uint" -> GoVal("uint64", v.v)
      [] OTHER -> v

\* The constructor calls of the claim: every constructor but Nop and From,
\* Error and NamedError with a non-nil error.
ClaimedCall ==
    /\ call.ctor \notin {"none", "Nop", "From", "SetKey", "SetValue"}
    /\ call.ctor \in {"Error", "NamedError"} => ~IsNil(call.arg)

\* C8 as stated: for every constructor, Kind() of the produced Field is the
\* documented Kind and the payload is exactly the value passed in, Int and
\* Uint widened.
C8_Original ==
    ClaimedCall =>
        /\ Kind(f) = DocumentedKind(call.ctor)
        /\ f.Value = PassedIn(call.ctor, call.arg)

\* C8, amended: the same for every constructor but Lazy, and for LazyFields
\* with a non-nil producer; Lazy(fn) with a non-nil fn produces Kind
\* LazyFields whose payload is a new func(context.Context) []Field that
\* calls fn; Lazy(nil) and LazyFields(nil) produce the zero Field.
C8_KindAndPayload ==
    ClaimedCall =>
        IF call.ctor \in {"Lazy", "LazyFields"} /\ IsNil(call.arg)
        THEN f = ZeroField
        ELSE IF call.ctor = "Lazy"
        THEN /\ Kind(f) = FieldKindLazyFields
             /\ f.Value.t = "func(context.Context) []Field"
             /\ f.Value # call.arg
             /\ f.Value.v = <<"Lazy.func1", call.arg.v[1]>>
        ELSE /\ Kind(f) = DocumentedKind(call.ctor)
             /\ f.Value = PassedIn(call.ctor, call.arg)

C8_Witness == call.ctor = "Lazy" /\ ~IsNil(call.arg) /\ Kind(f) = FieldKindLazyFields

\* C9: for every key k, Error(nil) and NamedError(k, nil) return a Field
\* equal to Nop(): empty Key, Kind Invalid, the empty payload marker; the
\* key k is not retained.
C9_NilErrorIsNop ==
    (call.ctor \in {"Error", "NamedError"} /\ IsNil(call.arg)) =>
        /\ f.Key = ""
        /\ Kind(f) = FieldKindInvalid
        /\ f.Value = EmptyStruct

C9_Witness == call.ctor = "NamedError" /\ call.key = "a" /\ IsNil(call.arg)

\* C10 as stated: From(k, v) returns the Field of the dedicated constructor
\* for the shape of v: the Int64 kind for any signed integer, the Uint64 kind
\* for any unsigned integer, the Float64 kind for any float.
C10_Original ==
    call.ctor = "From" =>
        LET k == call.key
            v == call.arg
        IN  CASE v.t = "string" -> f = String(k, v)
              [] v.t = "bool" -> f = Bool(k, v)
              [] v.t \in SignedTypes -> Kind(f) = FieldKindInt64
              [] v.t \in UnsignedTypes -> Kind(f) = FieldKindUint64
              [] v.t \in FloatTypes -> Kind(f) = FieldKindFloat64
              [] v.t = "time.Time" -> f = TimeField(k, v)
              [] v.t = "time.Duration" -> f = Duration(k, v)
              [] v.t \in ErrorTypes -> f = MkField(k, FieldKindError, v)
              [] OTHER -> f = Any(k, v)

\* C10, amended: the Int64 kind for an int or an int64, the Uint64 kind for
\* a uint or a uint64, the Float64 kind for a float64; a value of any other
\* integer or float width (int8, int16, int32, uint8, uint16, uint32,
\* float32) is an "other value" and yields Any(k, v), as does nil.
C10_FromByShape ==
    call.ctor = "From" =>
        LET k == call.key
            v == call.arg
        IN  CASE v.t = "string" -> f = MkField(k, FieldKindString, v)
              [] v.t = "bool" -> f = MkField(k, FieldKindBool, v)
              [] v.t \in {"int", "int64"} -> f = MkField(k, FieldKindInt64, GoVal("int64", v.v))
              [] v.t \in {"uint", "uint64"} -> f = MkField(k, FieldKindUint64, GoVal("uint64", v.v))
              [] v.t = "float64" -> f = MkField(k, FieldKindFloat64, v)
              [] v.t = "time.Time" -> f = MkField(k, FieldKindTime, v)
              [] v.t = "time.Duration" -> f = MkField(k, FieldKindDuration, v)
              [] v.t \in ErrorTypes -> f = MkField(k, FieldKindError, v)
              [] OTHER -> f = MkField(k, FieldKindAny, v)

C10_Witness == call.ctor = "From" /\ call.arg.t = "int32" /\ Kind(f) = FieldKindAny

(***************************************************************************)
(* Claims about Kinds the translation has no case for, checked under Spec. *)
(***************************************************************************)
\* the Kinds the switch of toZapFields has a case for
TranslatorKinds ==
    {FieldKindAny, FieldKindString, FieldKindBool, FieldKindInt64, FieldKindUint64,
     FieldKindFloat64, FieldKindTime, FieldKindDuration, FieldKindError,
     FieldKindStrings, FieldKindBools, FieldKindInt64s, FieldKindUint64s,
     FieldKindFloat64s, FieldKindErrors, FieldKindDict, FieldKindRawJSON,
     FieldKindHexBytes, FieldKindLazyValue, FieldKindTimestamp}

\* xs without its i-th element
Without(xs, i) == SubSeq(xs, 1, i - 1) \o SubSeq(xs, i + 1, Len(xs))

\* C11: a Field whose Kind the translator has no case for, or whose Kind is
\* Invalid, is dropped without a panic: alone it translates to no output
\* element, the output of the list is the output of the list without it,
\* and the same holds for such a Field among the sub-fields of a Dict.
C11_UnrecognisedDropped ==
    pc = "logged" =>
        /\ ~res.panic
        /\ \A i \in DOMAIN fs :
             /\ Kind(fs[i]) \notin TranslatorKinds =>
                  /\ Alone(fs[i]) = <<>>
                  /\ res.out = toZapFields(coreLevel, lvl, Without(fs, i), prev, clock).out
             /\ Kind(fs[i]) = FieldKindDict =>
                  \A j \in DOMAIN fs[i].Value.v :
                      Kind(fs[i].Value.v[j]) \notin TranslatorKinds =>
                          /\ ~MarshalLogObject(fs[i].Value.v, clock).panic
                          /\ MarshalLogObject(fs[i].Value.v, clock).out =
                                 MarshalLogObject(Without(fs[i].Value.v, j), clock).out

\* what zap adds to the encoder of an entry for the zap fields zfs
EntryOf(zfs) == AddTo(zfs, 1, Encoded(<<>>, FALSE), clock).out

\* C12: the nested path supports every Kind the top-level path supports: at
\* an enabled severity a Field of a scalar or array Kind, or of Kind Dict,
\* RawJSON, HexBytes, Timestamp or Any, translates to at least one entry at
\* the top level; and for each of these and for every lazy Field that
\* translates to an entry, a Dict of that Field alone adds the same keys to
\* the encoder as the entry of the top-level path has.
C12_NestedSupportsTopLevel ==
    (Logged /\ Enabled(coreLevel, lvl)) =>
        \A i \in DOMAIN fs :
            /\ (Kind(fs[i]) \in TranslatorKinds /\ ~IsLazy(fs[i])) =>
                 Len(Alone(fs[i])) >= 1
            /\ (~IsNoOp(fs[i]) /\ Alone(fs[i]) # <<>>) =>
                 KeysOf(MarshalLogObject(<<fs[i]>>, clock).out) = KeysOf(EntryOf(Alone(fs[i])))

(***************************************************************************)
(* errorArray: a caller builds a []error, and the encoder of an array      *)
(* field runs errorArray(es).MarshalLogArray.                              *)
(***************************************************************************)
\* the elements a []error holds
ErrElems == {Boom, Bang, GoNil}

\* es = append(es, e)
AppendErr ==
    /\ pc = "build"
    /\ Len(es) < MaxErrs
    /\ \E e \in ErrElems : es' = Append(es, e)
    /\ UNCHANGED <<f, call, fs, coreLevel, calls, res, lvl, entry, clock, prev, pc, bound, arr, level, conv>>

\* errorArray(es).MarshalLogArray(enc)
MarshalErrors ==
    /\ pc = "build"
    /\ arr' = ErrorArrayMarshalLogArray(es)
    /\ pc' = "encoded"
    /\ UNCHANGED <<f, call, fs, coreLevel, calls, res, lvl, entry, clock, prev, bound, es, level, conv>>

InitErrors ==
    /\ f = ZeroField
    /\ call = NoCall
    /\ fs = <<>>
    /\ coreLevel = InfoLevel
    /\ calls = [p \in Producers \cup CtxProducers |-> 0]
    /\ res = NoResult
    /\ lvl = InfoLevel
    /\ entry = <<>>
    /\ clock = 1
    /\ prev = calls
    /\ pc = "build"
    /\ bound = <<>>
    /\ es = <<>>
    /\ arr = <<>>
    /\ level = InfoLevel
    /\ conv = NoConv

NextErrors ==
    \/ AppendErr
    \/ MarshalErrors

SpecErrors == InitErrors /\ [][NextErrors]_vars

\* C13: errorArray.MarshalLogArray appends exactly len(es) elements, in the
\* order of es: the message of es[i] where es[i] is not nil, the string
\* "<nil>" where it is nil; no nil element is skipped.
C13_ErrorArrayAligned ==
    pc = "encoded" =>
        /\ Len(arr) = Len(es)
        /\ \A i \in DOMAIN es :
             arr[i] = GoVal("string", IF IsNil(es[i]) THEN "<nil>" ELSE es[i].v)

C13_Witness ==
    /\ pc = "encoded"
    /\ Len(es) = 3
    /\ IsNil(es[2]) /\ es[3] = Boom
    /\ arr[2] = GoVal("string", "<nil>") /\ arr[3] = GoVal("string", "boom")

(***************************************************************************)
(* Claims about Timestamp, Native and lazy Fields, checked under Spec.     *)
(***************************************************************************)
\* the time a Timestamp payload v stands for when it is translated at now
Stamp(v, now) == IF v.v = 0 THEN GoVal("time.Time", now) ELSE v

\* C14: every translation of a Timestamp Field encodes a time under its key:
\* the clock as read by that translation (the Log step read it one tick
\* before the state it leaves) when the payload is the zero time, and the
\* payload itself otherwise; at the top level as a zap time field, inside a
\* Dict as a time added under the key of the sub-field.
C14_TimestampTakesClock ==
    Logged =>
        \A i \in DOMAIN fs :
            /\ Kind(fs[i]) = FieldKindTimestamp =>
                 \E j \in DOMAIN res.out :
                     res.out[j] = ZapField(fs[i].Key, "TimeType", Stamp(fs[i].Value, clock - 1))
            /\ (Kind(fs[i]) = FieldKindDict /\ Enabled(coreLevel, lvl)) =>
                 \A j \in DOMAIN fs[i].Value.v :
                     Kind(fs[i].Value.v[j]) = FieldKindTimestamp =>
                         \E m \in DOMAIN entry :
                             /\ entry[m].Key = fs[i].Key
                             /\ \E n \in DOMAIN entry[m].Arg.v :
                                    entry[m].Arg.v[n] =
                                        Added(fs[i].Value.v[j].Key, "AddTime",
                                              Stamp(fs[i].Value.v[j].Value, clock - 1))

IsNative(x) ==
    Kind(x) = FieldKindAny /\ x.Key = NativeKey /\ x.Value.t = "zapx.native"

\* C15: a Field built by Native(zf) translates to exactly the zap field zf
\* it wraps, with the key and value of zf, not to an Any encoding of the
\* wrapper under the key "__zap_native__".
C15_NativeUnwrapped ==
    Logged =>
        \A i \in DOMAIN fs : IsNative(fs[i]) => Alone(fs[i]) = <<fs[i].Value.v>>

\* what toZapFields returns for the list xs, at the level of the last call
Out(xs) == toZapFields(coreLevel, lvl, xs, prev, clock).out

\* C16: at an enabled severity the producer of each lazy Field of the list
\* is run, and the output is the output of the Fields before it, then the
\* output of toZapFields at the same severity for the Fields the producer
\* returns, then the output of the Fields after it.
C16_LazyExpandedInPlace ==
    (Logged /\ Enabled(coreLevel, lvl)) =>
        \A i \in DOMAIN fs :
            IsLazy(fs[i]) =>
                /\ calls[ProducerOf(fs[i])] > prev[ProducerOf(fs[i])]
                /\ res.out = Out(SubSeq(fs, 1, i - 1))
                                 \o Out(ProducerResult(ProducerOf(fs[i])))
                                 \o Out(SubSeq(fs, i + 1, Len(fs)))

\* C17: for every list of Fields the constructors return, and at every
\* severity, enabled or not, toZapFields and the encoding of the Dicts of
\* the entry complete without a panic.
C17_NeverPanics == pc = "logged" => ~res.panic

C17_Witness ==
    /\ Logged /\ Enabled(coreLevel, lvl)
    /\ Len(fs) = 2
    /\ Kind(fs[1]) = FieldKindDict /\ fs[1].Value.v = <<>>
    /\ Kind(fs[2]) = FieldKindLazyFields

\* the clock values a translation may read
Clocks == 1..(MaxClock + 1)

Upper == <<"A", "B", "C", "D", "E", "F", "G", "H", "I", "J", "K", "L", "M",
           "N", "O", "P", "Q", "R", "S", "T", "U", "V", "W", "X", "Y", "Z">>

Lower == <<"a", "b", "c", "d", "e", "f", "g", "h", "i", "j", "k", "l", "m",
           "n", "o", "p", "q", "r", "s", "t", "u", "v", "w", "x", "y", "z">>

Digits == <<"0", "1", "2", "3", "4", "5", "6", "7", "8", "9">>

\* the white space strings.TrimSpace cuts
Space == {" ", "\t", "\n", "\r"}

\* strings.ToLower
ToLower(s) ==
    [i \in 1..Len(s) |->
        IF \E j \in DOMAIN Upper : Upper[j] = s[i]
        THEN Lower[CHOOSE j \in DOMAIN Upper : Upper[j] = s[i]]
        ELSE s[i]]

\* strings.TrimSpace
RECURSIVE TrimLeft(_)
TrimLeft(s) == IF s # <<>> /\ s[1] \in Space THEN TrimLeft(Tail(s)) ELSE s

RECURSIVE TrimRight(_)
TrimRight(s) ==
    IF s # <<>> /\ s[Len(s)] \in Space THEN TrimRight(SubSeq(s, 1, Len(s) - 1)) ELSE s

TrimSpace(s) == TrimRight(TrimLeft(s))

\* fmt's %d of an int
RECURSIVE Itoa(_)
Itoa(n) ==
    IF n < 0 THEN <<"-">> \o Itoa(0 - n)
    ELSE IF n < 10 THEN <<Digits[n + 1]>>
    ELSE Itoa(n \div 10) \o <<Digits[(n % 10) + 1]>>

\* a String that names DPanic as Panic is named
LevelStringDPanicAsPanic(l) ==
    CASE l = DebugLevel -> <<"d", "e", "b", "u", "g">>
      [] l = InfoLevel -> <<"i", "n", "f", "o">>
      [] l = WarnLevel -> <<"w", "a", "r", "n">>
      [] l = ErrorLevel -> <<"e", "r", "r", "o", "r">>
      [] l \in {DPanicLevel, PanicLevel} -> <<"p", "a", "n", "i", "c">>
      [] l = FatalLevel -> <<"f", "a", "t", "a", "l">>
      [] OTHER -> <<"L", "e", "v", "e", "l", "(">> \o Itoa(l) \o <<")">>

\* Level.String
LevelString(l) ==
    CASE l = DebugLevel -> <<"d", "e", "b", "u", "g">>
      [] l = InfoLevel -> <<"i", "n", "f", "o">>
      [] l = WarnLevel -> <<"w", "a", "r", "n">>
      [] l = ErrorLevel -> <<"e", "r", "r", "o", "r">>
      [] l = DPanicLevel -> <<"d", "p", "a", "n", "i", "c">>
      [] l = PanicLevel -> <<"p", "a", "n", "i", "c">>
      [] l = FatalLevel -> <<"f", "a", "t", "a", "l">>
      [] OTHER -> <<"L", "e", "v", "e", "l", "(">> \o Itoa(l) \o <<")">>

\* Level.Valid
Valid(l) ==
    l \in {DebugLevel, InfoLevel, WarnLevel, ErrorLevel, DPanicLevel, PanicLevel, FatalLevel}

\* the results (Level, error) and ([]byte, error)
Parsed(v, e) == [val |-> v, fail |-> e]

Marshaled(b, e) == [text |-> b, fail |-> e]

\* a ParseLevel that gives the zero Level for a name it does not know
ParseLevelDefaultsToInfo(s) ==
    LET n == ToLower(TrimSpace(s))
    IN  CASE n = <<"d", "e", "b", "u", "g">> -> Parsed(DebugLevel, FALSE)
          [] n = <<"w", "a", "r", "n">> -> Parsed(WarnLevel, FALSE)
          [] n = <<"e", "r", "r", "o", "r">> -> Parsed(ErrorLevel, FALSE)
          [] n = <<"d", "p", "a", "n", "i", "c">> -> Parsed(DPanicLevel, FALSE)
          [] n = <<"p", "a", "n", "i", "c">> -> Parsed(PanicLevel, FALSE)
          [] n = <<"f", "a", "t", "a", "l">> -> Parsed(FatalLevel, FALSE)
          [] OTHER -> Parsed(InfoLevel, FALSE)

\* ParseLevel
ParseLevel(s) ==
    LET n == ToLower(TrimSpace(s))
    IN  CASE n = <<"d", "e", "b", "u", "g">> -> Parsed(DebugLevel, FALSE)
          [] n = <<"i", "n", "f", "o">> -> Parsed(InfoLevel, FALSE)
          [] n = <<"w", "a", "r", "n">> \/ n = <<"w", "a", "r", "n", "i", "n", "g">> ->
               Parsed(WarnLevel, FALSE)
          [] n = <<"e", "r", "r", "o", "r">> -> Parsed(ErrorLevel, FALSE)
          [] n = <<"d", "p", "a", "n", "i", "c">> -> Parsed(DPanicLevel, FALSE)
          [] n = <<"p", "a", "n", "i", "c">> -> Parsed(PanicLevel, FALSE)
          [] n = <<"f", "a", "t", "a", "l">> -> Parsed(FatalLevel, FALSE)
          [] OTHER -> Parsed(0, TRUE)

\* Level.MarshalText
MarshalText(l) ==
    IF ~Valid(l) THEN Marshaled(<<>>, TRUE) ELSE Marshaled(LevelString(l), FALSE)

(***************************************************************************)
(* A caller of package logstox holds a Level, converts it to text and      *)
(* parses texts.                                                           *)
(***************************************************************************)
\* Level is an int8 a caller may set to any number: the defined levels and
\* LevelSlack numbers on either side
Levels == (DebugLevel - LevelSlack)..(FatalLevel + LevelSlack)

\* the names the texts are made of: those of the levels, and others
Names ==
    {LevelString(l) : l \in Levels}
    \cup {<<"w", "a", "r", "n", "i", "n", "g">>, <<>>, <<"t", "r", "a", "c", "e">>,
          <<"w", "a", " ", "r", "n">>, <<"i", "n", "f">>, <<"e", "r", "r">>,
          <<"i", "n", "f", "o", "s">>, <<"0">>}

\* a name in upper case, and with its first letter in upper case
ToUpper(s) ==
    [i \in 1..Len(s) |->
        IF \E j \in DOMAIN Lower : Lower[j] = s[i]
        THEN Upper[CHOOSE j \in DOMAIN Lower : Lower[j] = s[i]]
        ELSE s[i]]

Title(s) == IF s = <<>> THEN s ELSE ToUpper(<<s[1]>>) \o Tail(s)

\* the texts a caller parses: the names as they are, in upper case with a
\* space after them, and with a capital between white space
Texts ==
    Names
    \cup {ToUpper(n) \o <<" ">> : n \in Names}
    \cup {<<" ">> \o Title(n) \o <<"\t">> : n \in Names}

Conv(name, t, v, e) == [fn |-> name, text |-> t, val |-> v, fail |-> e]

\* var l Level = Level(n)
LevelAssign ==
    /\ \E l \in Levels : level' = l
    /\ conv' = NoConv
    /\ UNCHANGED <<f, call, fs, coreLevel, calls, res, lvl, entry, clock, prev, pc, bound, es, arr>>

\* l.String()
LevelToString ==
    /\ conv' = Conv("String", LevelString(level), level, FALSE)
    /\ UNCHANGED <<f, call, fs, coreLevel, calls, res, lvl, entry, clock, prev, pc, bound, es, arr, level>>

\* ParseLevel(s)
LevelParse ==
    /\ \E s \in Texts :
        LET r == ParseLevel(s) IN conv' = Conv("ParseLevel", s, r.val, r.fail)
    /\ UNCHANGED <<f, call, fs, coreLevel, calls, res, lvl, entry, clock, prev, pc, bound, es, arr, level>>

\* l.MarshalText()
LevelMarshalText ==
    /\ LET r == MarshalText(level) IN conv' = Conv("MarshalText", r.text, level, r.fail)
    /\ UNCHANGED <<f, call, fs, coreLevel, calls, res, lvl, entry, clock, prev, pc, bound, es, arr, level>>

\* l.UnmarshalText(text): conv keeps the Level l held before the call
LevelUnmarshalText ==
    /\ \E s \in Texts :
        LET parsed == ParseLevel(s)
        IN  /\ level' = IF parsed.fail THEN level ELSE parsed.val
            /\ conv' = Conv("UnmarshalText", s, level, parsed.fail)
    /\ UNCHANGED <<f, call, fs, coreLevel, calls, res, lvl, entry, clock, prev, pc, bound, es, arr>>

InitLevel ==
    /\ f = ZeroField
    /\ call = NoCall
    /\ fs = <<>>
    /\ coreLevel = InfoLevel
    /\ calls = [p \in Producers \cup CtxProducers |-> 0]
    /\ res = NoResult
    /\ lvl = InfoLevel
    /\ entry = <<>>
    /\ clock = 1
    /\ prev = calls
    /\ pc = "build"
    /\ bound = <<>>
    /\ es = <<>>
    /\ arr = <<>>
    /\ level = InfoLevel
    /\ conv = NoConv

NextLevel ==
    \/ LevelAssign
    \/ LevelToString
    \/ LevelParse
    \/ LevelMarshalText
    \/ LevelUnmarshalText

SpecLevel == InitLevel /\ [][NextLevel]_vars

(***************************************************************************)
(* Claims about Level, checked under SpecLevel.                            *)
(***************************************************************************)
\* the names ParseLevel is documented to accept
LevelNames ==
    {<<"d", "e", "b", "u", "g">>, <<"i", "n", "f", "o">>, <<"w", "a", "r", "n">>,
     <<"w", "a", "r", "n", "i", "n", "g">>, <<"e", "r", "r", "o", "r">>,
     <<"d", "p", "a", "n", "i", "c">>, <<"p", "a", "n", "i", "c">>,
     <<"f", "a", "t", "a", "l">>}

\* C19: ParseLevel and UnmarshalText return an error for every text that,
\* trimmed of white space and in lower case, is not one of debug, info,
\* warn, warning, error, dpanic, panic, fatal; MarshalText of a Level
\* outside -1..5 returns an error and no text, and String of such a Level
\* returns no level name.
C19_ConversionErrors ==
    /\ (conv.fn \in {"ParseLevel", "UnmarshalText"}
          /\ ToLower(TrimSpace(conv.text)) \notin LevelNames) => conv.fail
    /\ (conv.fn = "MarshalText" /\ conv.val \notin DebugLevel..FatalLevel) =>
           conv.fail /\ conv.text = <<>>
    /\ (conv.fn = "String" /\ conv.val \notin DebugLevel..FatalLevel) =>
           conv.text \notin LevelNames /\ ParseLevel(conv.text).fail

C19_Witness ==
    /\ conv.fn = "UnmarshalText"
    /\ conv.text = <<" ", "T", "r", "a", "c", "e", "\t">>
    /\ conv.fail
    /\ level = conv.val

(***************************************************************************)
(* A logger with bound context: Backend.New with Options.Fields, With, and *)
(* the leveled methods of the logger returned.                             *)
(***************************************************************************)
\* the field lists passed as Options.Fields, to With and to a leveled method
CtxLists ==
    {<<>>, <<Nop>>, <<Lazy(GoVal("func() []Field", <<"p1">>))>>,
     <<String("a", GoVal("string", "alice")),
       LazyFields(GoVal("func(context.Context) []Field", <<"c1">>))>>}

\* the seven leveled methods
MethodLevels == DebugLevel..FatalLevel

\* base.With(toZapFields(base, zapcore.InfoLevel, opts.Fields...)...) at the
\* end of Backend.New
New ==
    /\ pc = "start"
    /\ \E xs \in CtxLists :
        LET r == toZapFields(coreLevel, InfoLevel, xs, calls, clock)
        IN  /\ fs' = xs
            /\ res' = [out |-> r.out, panic |-> r.panic]
            /\ calls' = r.counts
            /\ bound' = IF r.panic THEN bound ELSE bound \o EntryOf(r.out)
    /\ prev' = calls
    /\ lvl' = InfoLevel
    /\ pc' = "new"
    /\ UNCHANGED <<f, call, coreLevel, entry, clock, es, arr, level, conv>>

\* lg.l.With(toZapFields(lg.l, zapcore.InfoLevel, f...)...)
With ==
    /\ pc # "start"
    /\ clock <= MaxClock
    /\ \E xs \in CtxLists :
        LET r == toZapFields(coreLevel, InfoLevel, xs, calls, clock)
        IN  /\ fs' = xs
            /\ res' = [out |-> r.out, panic |-> r.panic]
            /\ calls' = r.counts
            /\ bound' = IF r.panic THEN bound ELSE bound \o EntryOf(r.out)
    /\ prev' = calls
    /\ lvl' = InfoLevel
    /\ clock' = clock + 1
    /\ pc' = "with"
    /\ UNCHANGED <<f, call, coreLevel, entry, es, arr, level, conv>>

\* a leveled method of the logger: the entry holds the bound context, then
\* the fields of the call
LogBound ==
    /\ pc # "start"
    /\ clock <= MaxClock
    /\ \E l \in MethodLevels, xs \in CtxLists :
        LET r == toZapFields(coreLevel, l, xs, calls, clock)
        IN  /\ fs' = xs
            /\ res' = [out |-> r.out, panic |-> r.panic]
            /\ calls' = r.counts
            /\ entry' = IF r.panic \/ ~Enabled(coreLevel, l) THEN <<>>
                        ELSE bound \o EntryOf(r.out)
            /\ lvl' = l
    /\ prev' = calls
    /\ clock' = clock + 1
    /\ pc' = "logged"
    /\ UNCHANGED <<f, call, coreLevel, bound, es, arr, level, conv>>

InitLogger ==
    /\ f = ZeroField
    /\ call = NoCall
    /\ fs = <<>>
    /\ coreLevel \in CoreLevels
    /\ calls = [p \in Producers \cup CtxProducers |-> 0]
    /\ res = NoResult
    /\ lvl = InfoLevel
    /\ entry = <<>>
    /\ clock = 1
    /\ prev = calls
    /\ pc = "start"
    /\ bound = <<>>
    /\ es = <<>>
    /\ arr = <<>>
    /\ level = InfoLevel
    /\ conv = NoConv

NextLogger ==
    \/ New
    \/ With
    \/ LogBound

SpecLogger == InitLogger /\ [][NextLogger]_vars

\* C20: New and With translate the lazy Fields they bind at the severity
\* Info: each producer is run once for each lazy Field of the list that runs
\* it when the core enables Info at that moment, and not at all when it does
\* not; a later leveled call, at whatever severity, runs no producer but
\* those of its own arguments.
C20_BoundLazyRunsAtBindTime ==
    /\ (pc \in {"new", "with"} /\ ~res.panic) =>
          \A p \in Producers \cup CtxProducers :
              calls[p] = prev[p] + (IF Enabled(coreLevel, InfoLevel)
                                    THEN Occurrences(p, fs) ELSE 0)
    /\ (pc = "logged" /\ ~res.panic) =>
          \A p \in Producers \cup CtxProducers :
              Occurrences(p, fs) = 0 => calls[p] = prev[p]

\* the defined Levels, Debug to Fatal
DefinedLevels == DebugLevel..FatalLevel

\* C21: for every defined Level l, ParseLevel of the text l.String()
\* returns l and no error, and UnmarshalText of the bytes l.MarshalText()
\* returns stores l in the receiver; UnmarshalText of a text that is no
\* level name returns an error and leaves the receiver as it was.
C21_TextRoundTrip ==
    /\ \A l \in DefinedLevels :
         /\ (conv.fn = "ParseLevel" /\ conv.text = LevelString(l)) =>
                ~conv.fail /\ conv.val = l
         /\ (conv.fn = "UnmarshalText" /\ ~MarshalText(l).fail
               /\ conv.text = MarshalText(l).text) =>
                ~conv.fail /\ level = l
    /\ (conv.fn = "UnmarshalText" /\ ToLower(TrimSpace(conv.text)) \notin LevelNames) =>
           conv.fail /\ level = conv.val

C21_Witness ==
    /\ conv.fn = "UnmarshalText"
    /\ conv.text = MarshalText(DPanicLevel).text
    /\ conv.val = FatalLevel + 1
    /\ ~conv.fail
    /\ level = DPanicLevel

====
